---- MODULE Spec2Model ----
(***************************************************************************)
(* Model of go-mysql-worker (src/main.go): main, the StartWorkers          *)
(* goroutine, the pool of worker goroutines, the jobs and quit channels    *)
(* and the sync.WaitGroup that joins the pool.                             *)
(*                                                                         *)
(* Strings that the program builds (the insert statement) are sequences   *)
(* of one-character strings, so that concatenation and the number of      *)
(* placeholder groups are computed, not assumed.                          *)
(***************************************************************************)
EXTENDS Integers, Sequences, FiniteSets, TLC

\* ---------------------------------------------------------------- bounds
\* The program's pool size, batch size and channel capacity are 100, 8 and
\* 100 (src/main.go:25-27); the pool is checked at these smaller sizes.
NWorkers == 2
BatchSize == 2
QueueCap == 2
\* Largest number of data rows of an input file read by the whole pool.
MaxRows == 2
\* The small row ceiling tried beside the program's own (mainMaxLines).
SmallMaxLines == 1
MaxListLen == 4

\* ProcessCSVFile(csvReader, jobs, 2000000)
mainMaxLines == 2000000

VARIABLES
    totalWorkers,       \* pool size W (const totalWorkers)
    sqlBatchSize,       \* batch size B (const sqlBatchSize)
    channelBufferSize,  \* capacity of jobs (const channelBufferSize)
    maxLines,           \* ProcessCSVFile's row ceiling
    dataHeaders,        \* the header row, read before the pool starts
    csv,                \* what csvReader.Read returns after the header, in order
    readPos,            \* number of Read calls ProcessCSVFile has made
    row,                \* ProcessCSVFile: the row read and not yet sent
    rowcount,           \* ProcessCSVFile: rowcount
    mainPc,             \* where main is
    stopI,              \* StopWorkers: i
    startI,             \* StartWorkers: i
    jobs,               \* buffered content of the jobs channel
    jobsClosed,         \* close(jobs) has run
    quit,               \* buffered content of the quit channel
    wg,                 \* the WaitGroup counter
    pc,                 \* per worker: where it is
    counter,            \* per worker: counter
    q,                  \* per worker: q, the insert statement being grown
    values,             \* per worker: values
    timeout,            \* per worker: timeout
    process,            \* "running", "exited" (main returned) or "fatal" (os.Exit(1))
    execs,              \* history: every conn.ExecContext call, in order
    sent,               \* history: every record sent on jobs, in order
    taken               \* history: per worker, Quit Tokens received

cfgVars == <<totalWorkers, sqlBatchSize, channelBufferSize, maxLines, dataHeaders, csv>>
mainVars == <<readPos, row, rowcount, mainPc, stopI>>
chanVars == <<jobs, jobsClosed, quit>>
workerVars == <<pc, counter, q, values, timeout>>
histVars == <<execs, sent, taken>>
vars == <<cfgVars, mainVars, chanVars, workerVars, histVars, startI, wg, process>>

\* ------------------------------------------------------------- strings
Chr_InsertInto == <<"I","N","S","E","R","T"," ","I","N","T","O"," ","d","o","m","a","i","n"," ","(">>
Chr_Values == <<")"," ","V","A","L","U","E","S"," ","(">>
Chr_Close == <<")">>
Chr_Comma == <<",">>
Chr_CommaOpen == <<","," ","(">>

RECURSIVE Join(_, _)
\* strings.Join(elems, sep)
Join(elems, sep) ==
    IF Len(elems) = 0 THEN <<>>
    ELSE IF Len(elems) = 1 THEN elems[1]
    ELSE elems[1] \o sep \o Join(Tail(elems), sep)

\* generateQuestionsMark(n)
generateQuestionsMark(n) == [i \in 1..n |-> <<"?">>]

\* StartWorkers: placeholders
placeholders == Join(generateQuestionsMark(Len(dataHeaders)), Chr_Comma)

\* StartWorkers: query
query == Chr_InsertInto \o Join(dataHeaders, Chr_Comma) \o Chr_Values \o placeholders \o Chr_Close

\* Mutant: the fragment is appended for the first record too.
GrowQuery_Always(qw, cnt) == qw \o Chr_CommaOpen \o placeholders \o Chr_Close

\* Mutant: the fragment is appended as ",(" + placeholders + ")".
GrowQuery_NoSpace(qw, cnt) == IF cnt > 0 THEN qw \o <<",", "(">> \o placeholders \o Chr_Close ELSE qw

\* worker: q = q + ", (" + placeholders + ")" when counter > 0
GrowQuery(qw, cnt) == IF cnt > 0 THEN qw \o Chr_CommaOpen \o placeholders \o Chr_Close ELSE qw

\* toAnyList(input)
\* Mutant: the loop stops one element early.
toAnyList_DropLast(input) == [i \in 1..(Len(input) - 1) |-> input[i]]

toAnyList(input) == [i \in 1..Len(input) |-> input[i]]

\* ------------------------------------------------------------- inputs
ColA == <<"a">>
ColB == <<"b">>
Header == <<ColA, ColB>>

\* The i-th data row of the input file; rows are pairwise distinct.
DataRow(i) == <<ToString(2 * i - 1), ToString(2 * i)>>

\* A result of csvReader.Read: a row, or a read error that is not io.EOF.
\* io.EOF is what Read returns past the end of csv.
Ok(r) == [row |-> r, err |-> "nil"]
ReadError == [row |-> <<>>, err |-> "ErrRead"]

Rows(n) == [i \in 1..n |-> Ok(DataRow(i))]

\* Input files: n rows; or n rows with a failing read in the middle.
Inputs ==
    {Rows(n) : n \in 0..MaxRows}
    \cup {<<Ok(DataRow(1)), ReadError, Ok(DataRow(2))>>}

Workers == 0..(totalWorkers - 1)

\* ---------------------------------------------------------------- state
\* main up to line 77: the header is read, both channels are made, the
\* WaitGroup is zero and the StartWorkers goroutine has been spawned.
InitState(W, B, C, ml, input) ==
    /\ totalWorkers = W
    /\ sqlBatchSize = B
    /\ channelBufferSize = C
    /\ maxLines = ml
    /\ dataHeaders = Header
    /\ csv = input
    /\ readPos = 0
    /\ row = <<>>
    /\ rowcount = 0
    /\ mainPc = "read"
    /\ stopI = 0
    /\ startI = 0
    /\ jobs = <<>>
    /\ jobsClosed = FALSE
    /\ quit = <<>>
    /\ wg = 0
    /\ pc = [w \in 0..(W - 1) |-> "unstarted"]
    /\ counter = [w \in 0..(W - 1) |-> 0]
    /\ q = [w \in 0..(W - 1) |-> <<>>]
    /\ values = [w \in 0..(W - 1) |-> <<>>]
    /\ timeout = [w \in 0..(W - 1) |-> FALSE]
    /\ process = "running"
    /\ execs = <<>>
    /\ sent = <<>>
    /\ taken = [w \in 0..(W - 1) |-> 0]

\* The pool of NWorkers on every input file under the program's row ceiling,
\* and on the longest one under a ceiling that cuts it short; and one worker
\* alone on a file of more rows than a batch holds.
Init ==
    \/ \E input \in Inputs : InitState(NWorkers, BatchSize, QueueCap, mainMaxLines, input)
    \/ InitState(NWorkers, BatchSize, QueueCap, SmallMaxLines, Rows(MaxRows))
    \/ InitState(1, BatchSize, QueueCap, mainMaxLines, Rows(BatchSize + 2))

\* No goroutine takes a step once the process has ended.
Running == process = "running"

\* ----------------------------------------------------------------- main
\* Mutant: a read error other than io.EOF skips the record and reads on.
ProducerRead_SkipError ==
    /\ Running
    /\ mainPc = "read"
    /\ IF rowcount < maxLines
       THEN /\ readPos' = readPos + 1
            /\ IF readPos >= Len(csv)
               THEN /\ mainPc' = "close"
                    /\ row' = <<>>
               ELSE IF csv[readPos + 1].err # "nil"
               THEN /\ mainPc' = "read"
                    /\ row' = <<>>
               ELSE /\ mainPc' = "send"
                    /\ row' = csv[readPos + 1].row
       ELSE /\ mainPc' = "close"
            /\ UNCHANGED <<readPos, row>>
    /\ UNCHANGED <<cfgVars, rowcount, stopI, chanVars, workerVars, histVars, startI, wg, process>>

\* Mutant: the loop condition is rowcount <= maxLines.
ProducerRead_OffByOne ==
    /\ Running
    /\ mainPc = "read"
    /\ IF rowcount <= maxLines
       THEN /\ readPos' = readPos + 1
            /\ IF (IF readPos < Len(csv) THEN csv[readPos + 1].err ELSE "EOF") # "nil"
               THEN /\ mainPc' = "close"
                    /\ row' = <<>>
               ELSE /\ mainPc' = "send"
                    /\ row' = csv[readPos + 1].row
       ELSE /\ mainPc' = "close"
            /\ UNCHANGED <<readPos, row>>
    /\ UNCHANGED <<cfgVars, rowcount, stopI, chanVars, workerVars, histVars, startI, wg, process>>

\* ProcessCSVFile: the loop condition and reader.Read
ReadResult == IF readPos < Len(csv) THEN csv[readPos + 1] ELSE [row |-> <<>>, err |-> "EOF"]

ProducerRead ==
    /\ Running
    /\ mainPc = "read"
    /\ IF rowcount < maxLines
       THEN /\ readPos' = readPos + 1
            /\ IF ReadResult.err # "nil"
               THEN /\ mainPc' = "close"
                    /\ row' = <<>>
               ELSE /\ mainPc' = "send"
                    /\ row' = ReadResult.row
       ELSE /\ mainPc' = "close"
            /\ UNCHANGED <<readPos, row>>
    /\ UNCHANGED <<cfgVars, rowcount, stopI, chanVars, workerVars, histVars, startI, wg, process>>

\* Mutant: the send goes through whatever the channel holds.
ProducerSend_NoWait ==
    /\ Running
    /\ mainPc = "send"
    /\ jobs' = Append(jobs, row)
    /\ sent' = Append(sent, row)
    /\ rowcount' = rowcount + 1
    /\ row' = <<>>
    /\ mainPc' = "read"
    /\ UNCHANGED <<cfgVars, readPos, stopI, jobsClosed, quit, workerVars, execs, taken, startI, wg, process>>

\* ProcessCSVFile: jobs <- row, then rowcount++
ProducerSend ==
    /\ Running
    /\ mainPc = "send"
    /\ Len(jobs) < channelBufferSize
    /\ jobs' = Append(jobs, row)
    /\ sent' = Append(sent, row)
    /\ rowcount' = rowcount + 1
    /\ row' = <<>>
    /\ mainPc' = "read"
    /\ UNCHANGED <<cfgVars, readPos, stopI, jobsClosed, quit, workerVars, execs, taken, startI, wg, process>>

\* ProcessCSVFile: close(jobs); main goes on to StopWorkers
ProducerClose ==
    /\ Running
    /\ mainPc = "close"
    /\ jobsClosed' = TRUE
    /\ mainPc' = "stop"
    /\ stopI' = 0
    /\ UNCHANGED <<cfgVars, readPos, row, rowcount, jobs, quit, workerVars, histVars, startI, wg, process>>

\* quit := make(chan bool, totalWorkers)
\* Mutant: quit := make(chan bool, totalWorkers-1).
QuitCap_OneLess == totalWorkers - 1

QuitCap == totalWorkers

\* Mutant: the loop runs to totalWorkers - 1.
StopWorkers_OneShort ==
    /\ Running
    /\ mainPc = "stop"
    /\ stopI < totalWorkers
    /\ Len(quit) < QuitCap
    /\ IF stopI < totalWorkers - 1
       THEN /\ quit' = Append(quit, TRUE)
            /\ stopI' = stopI + 1
            /\ mainPc' = IF stopI + 1 < totalWorkers - 1 THEN "stop" ELSE "wait"
       ELSE /\ mainPc' = "wait"
            /\ UNCHANGED <<quit, stopI>>
    /\ UNCHANGED <<cfgVars, readPos, row, rowcount, jobs, jobsClosed, workerVars, histVars, startI, wg, process>>

\* StopWorkers: quit <- true, i++; the loop ends at i = totalWorkers
StopWorkers ==
    /\ Running
    /\ mainPc = "stop"
    /\ stopI < totalWorkers
    /\ Len(quit) < QuitCap
    /\ quit' = Append(quit, TRUE)
    /\ stopI' = stopI + 1
    /\ mainPc' = IF stopI + 1 < totalWorkers THEN "stop" ELSE "wait"
    /\ UNCHANGED <<cfgVars, readPos, row, rowcount, jobs, jobsClosed, workerVars, histVars, startI, wg, process>>

\* wg.Wait returns when the counter is zero
WaitReturns == wg = 0

WgWait ==
    /\ Running
    /\ mainPc = "wait"
    /\ WaitReturns
    /\ mainPc' = "done"
    /\ UNCHANGED <<cfgVars, readPos, row, rowcount, stopI, chanVars, workerVars, histVars, startI, wg, process>>

\* main returns: the process ends, whatever the goroutines are doing
MainReturn ==
    /\ Running
    /\ mainPc = "done"
    /\ process' = "exited"
    /\ UNCHANGED <<cfgVars, mainVars, chanVars, workerVars, histVars, startI, wg>>

\* ---------------------------------------------------------- StartWorkers
\* One iteration of the loop: wg.Add(1); go worker(i, ...)
StartWorkers ==
    /\ Running
    /\ startI < totalWorkers
    /\ wg' = wg + 1
    /\ pc' = [pc EXCEPT ![startI] = "conn"]
    /\ startI' = startI + 1
    /\ UNCHANGED <<cfgVars, mainVars, chanVars, counter, q, values, timeout, histVars, process>>

\* --------------------------------------------------------------- worker
\* Mutant: values is not reset at cycle entry.
EnterCycle_KeepValues(w) ==
    /\ pc' = [pc EXCEPT ![w] = "select"]
    /\ counter' = [counter EXCEPT ![w] = 0]
    /\ q' = [q EXCEPT ![w] = query]
    /\ values' = values
    /\ timeout' = [timeout EXCEPT ![w] = FALSE]

\* Cycle entry: counter := 0, q := query, values := [], timeout := false
EnterCycle(w) ==
    /\ pc' = [pc EXCEPT ![w] = "select"]
    /\ counter' = [counter EXCEPT ![w] = 0]
    /\ q' = [q EXCEPT ![w] = query]
    /\ values' = [values EXCEPT ![w] = <<>>]
    /\ timeout' = [timeout EXCEPT ![w] = FALSE]

\* db.Conn succeeds
WorkerConn(w) ==
    /\ Running
    /\ pc[w] = "conn"
    /\ EnterCycle(w)
    /\ UNCHANGED <<cfgVars, mainVars, chanVars, histVars, startI, wg, process>>

\* db.Conn fails: log.Fatal
WorkerConnFail(w) ==
    /\ Running
    /\ pc[w] = "conn"
    /\ pc' = [pc EXCEPT ![w] = "fatal"]
    /\ UNCHANGED <<cfgVars, mainVars, chanVars, counter, q, values, timeout, histVars, startI, wg, process>>

\* Mutant: counter > sqlBatchSize.
BatchClosed_OffByOne(cnt, to) == cnt > sqlBatchSize \/ to

\* Mutant: counter > 0.
BatchClosed_AnyRecord(cnt, to) == cnt > 0 \/ to

\* if counter >= sqlBatchSize || timeout { break }
BatchClosed(cnt, to) == cnt >= sqlBatchSize \/ to

\* select, case <-timer: the timer may have expired at any moment
WorkerTimer(w) ==
    /\ Running
    /\ pc[w] = "select"
    /\ timeout' = [timeout EXCEPT ![w] = TRUE]
    /\ pc' = [pc EXCEPT ![w] = IF BatchClosed(counter[w], TRUE) THEN "flush" ELSE "select"]
    /\ UNCHANGED <<cfgVars, mainVars, chanVars, counter, q, values, histVars, startI, wg, process>>

\* Mutant: the nil job of a closed channel is counted like a record.
JobCounts_Always(job) == TRUE

\* if len(job) > 0
JobCounts(job) == Len(job) > 0

\* select, case job := <-jobs: a buffered record, or nil once jobs is closed and empty
WorkerRecv(w) ==
    /\ Running
    /\ pc[w] = "select"
    /\ Len(jobs) > 0 \/ jobsClosed
    /\ LET job == IF Len(jobs) > 0 THEN Head(jobs) ELSE <<>>
           cnt == IF JobCounts(job) THEN counter[w] + 1 ELSE counter[w]
       IN /\ jobs' = IF Len(jobs) > 0 THEN Tail(jobs) ELSE jobs
          /\ IF JobCounts(job)
             THEN /\ values' = [values EXCEPT ![w] = values[w] \o job]
                  /\ q' = [q EXCEPT ![w] = GrowQuery(q[w], counter[w])]
             ELSE UNCHANGED <<values, q>>
          /\ counter' = [counter EXCEPT ![w] = cnt]
          /\ pc' = [pc EXCEPT ![w] = IF BatchClosed(cnt, timeout[w]) THEN "flush" ELSE "select"]
    /\ UNCHANGED <<cfgVars, mainVars, jobsClosed, quit, timeout, histVars, startI, wg, process>>

\* Mutant: the insert is made whatever values holds.
HasValues_Always(vals) == TRUE

\* if len(values) > 0
HasValues(vals) == Len(vals) > 0

\* conn.ExecContext(ctx, q, toAnyList(values)...)
ExecCall(w, ok) == [worker |-> w, query |-> q[w], args |-> toAnyList(values[w]), ok |-> ok]

\* After the select loop: the insert when there are values, and it succeeds
\* (or there is nothing to insert)
WorkerFlush(w) ==
    /\ Running
    /\ pc[w] = "flush"
    /\ execs' = IF HasValues(values[w]) THEN Append(execs, ExecCall(w, TRUE)) ELSE execs
    /\ pc' = [pc EXCEPT ![w] = "quitcheck"]
    /\ UNCHANGED <<cfgVars, mainVars, chanVars, counter, q, values, timeout, sent, taken, startI, wg, process>>

\* Mutant: the error of the insert is not looked at.
WorkerFlushFail_Ignored(w) ==
    /\ Running
    /\ pc[w] = "flush"
    /\ HasValues(values[w])
    /\ execs' = Append(execs, [worker |-> w, query |-> q[w], args |-> toAnyList(values[w]), ok |-> FALSE])
    /\ pc' = [pc EXCEPT ![w] = "quitcheck"]
    /\ UNCHANGED <<cfgVars, mainVars, chanVars, counter, q, values, timeout, sent, taken, startI, wg, process>>

\* The insert returns an error: log.Fatal
WorkerFlushFail(w) ==
    /\ Running
    /\ pc[w] = "flush"
    /\ HasValues(values[w])
    /\ execs' = Append(execs, ExecCall(w, FALSE))
    /\ pc' = [pc EXCEPT ![w] = "fatal"]
    /\ UNCHANGED <<cfgVars, mainVars, chanVars, counter, q, values, timeout, sent, taken, startI, wg, process>>

\* select { case <-quit: ... default: }
QuitReady == Len(quit) > 0

\* Mutant: the token is seen but not received from the channel.
WorkerCheckQuit_Peek(w) ==
    /\ Running
    /\ pc[w] = "quitcheck"
    /\ IF Len(quit) > 0
       THEN /\ taken' = [taken EXCEPT ![w] = taken[w] + 1]
            /\ pc' = [pc EXCEPT ![w] = "exiting"]
            /\ UNCHANGED <<quit, counter, q, values, timeout>>
       ELSE /\ pc' = [pc EXCEPT ![w] = "select"]
            /\ counter' = [counter EXCEPT ![w] = 0]
            /\ q' = [q EXCEPT ![w] = query]
            /\ values' = [values EXCEPT ![w] = <<>>]
            /\ timeout' = [timeout EXCEPT ![w] = FALSE]
            /\ UNCHANGED <<quit, taken>>
    /\ UNCHANGED <<cfgVars, mainVars, jobs, jobsClosed, execs, sent, startI, wg, process>>

\* The shutdown check: with a token, exit = true and the loop ends; without,
\* the next cycle begins
WorkerCheckQuit(w) ==
    /\ Running
    /\ pc[w] = "quitcheck"
    /\ IF QuitReady
       THEN /\ quit' = Tail(quit)
            /\ taken' = [taken EXCEPT ![w] = taken[w] + 1]
            /\ pc' = [pc EXCEPT ![w] = "exiting"]
            /\ UNCHANGED <<counter, q, values, timeout>>
       ELSE /\ EnterCycle(w)
            /\ UNCHANGED <<quit, taken>>
    /\ UNCHANGED <<cfgVars, mainVars, jobs, jobsClosed, execs, sent, startI, wg, process>>

\* The deferred calls of a returning worker: conn.Close(), wg.Add(-1)
WorkerExit(w) ==
    /\ Running
    /\ pc[w] = "exiting"
    /\ wg' = wg - 1
    /\ pc' = [pc EXCEPT ![w] = "exited"]
    /\ UNCHANGED <<cfgVars, mainVars, chanVars, counter, q, values, timeout, histVars, startI, process>>

\* log.Fatal ends in os.Exit(1): no deferred call runs
WorkerFatal(w) ==
    /\ Running
    /\ pc[w] = "fatal"
    /\ process' = "fatal"
    /\ UNCHANGED <<cfgVars, mainVars, chanVars, workerVars, histVars, startI, wg>>

Next ==
    \/ ProducerRead
    \/ ProducerSend
    \/ ProducerClose
    \/ StopWorkers
    \/ WgWait
    \/ MainReturn
    \/ StartWorkers
    \/ \E w \in Workers : WorkerConn(w)
    \/ \E w \in Workers : WorkerConnFail(w)
    \/ \E w \in Workers : WorkerTimer(w)
    \/ \E w \in Workers : WorkerRecv(w)
    \/ \E w \in Workers : WorkerFlush(w)
    \/ \E w \in Workers : WorkerFlushFail(w)
    \/ \E w \in Workers : WorkerCheckQuit(w)
    \/ \E w \in Workers : WorkerExit(w)
    \/ \E w \in Workers : WorkerFatal(w)

Spec == Init /\ [][Next]_vars

\* Fair scheduling of every goroutine and timers that expire; a store or
\* connection failure is never forced.
Fairness ==
    /\ WF_vars(ProducerRead)
    /\ WF_vars(ProducerSend)
    /\ WF_vars(ProducerClose)
    /\ WF_vars(StopWorkers)
    /\ WF_vars(WgWait)
    /\ WF_vars(MainReturn)
    /\ WF_vars(StartWorkers)
    /\ \A w \in 0..(NWorkers - 1) :
        /\ WF_vars(w \in Workers /\ WorkerConn(w))
        /\ WF_vars(w \in Workers /\ WorkerTimer(w))
        /\ WF_vars(w \in Workers /\ WorkerRecv(w))
        /\ WF_vars(w \in Workers /\ WorkerFlush(w))
        /\ WF_vars(w \in Workers /\ WorkerCheckQuit(w))
        /\ WF_vars(w \in Workers /\ WorkerExit(w))
        /\ WF_vars(w \in Workers /\ WorkerFatal(w))

FairSpec == Spec /\ Fairness

\* The pool on the input files of at most one data row, scheduled fairly.
InitShort ==
    \E input \in {Rows(0), Rows(1)} :
        InitState(NWorkers, BatchSize, QueueCap, mainMaxLines, input)

FairSpecShort == InitShort /\ [][Next]_vars /\ Fairness

\* ------------------------------------------------------------- helpers
H == Len(dataHeaders)

\* The records of a call's parameter vector, when it holds whole records
NumRecords(e) == Len(e.args) \div H

ExecsBy(w) == SelectSeq(execs, LAMBDA e : e.worker = w)

Last(s) == s[Len(s)]

Exited(w) == pc[w] \in {"exiting", "exited"}

RECURSIVE SumTaken(_)
SumTaken(S) ==
    IF S = {} THEN 0
    ELSE LET w == CHOOSE x \in S : TRUE IN taken[w] + SumTaken(S \ {w})

\* Number of places where g occurs in s
CountOccurrences(s, g) ==
    Cardinality({i \in 1..(Len(s) - Len(g) + 1) : SubSeq(s, i, i + Len(g) - 1) = g})

\* One placeholder group: "(" + placeholders + ")"
Group == <<"(">> \o placeholders \o Chr_Close

\* The appended fragment: ", (" + placeholders + ")"
Fragment == Chr_CommaOpen \o placeholders \o Chr_Close

RECURSIVE Repeat(_, _)
Repeat(s, n) == IF n <= 0 THEN <<>> ELSE s \o Repeat(s, n - 1)

\* --------------------------------------------------------------- claims

\* C1: when the pool join (wg.Wait in main) has returned, every one of the W
\* workers has been started and has exited, in every interleaving of main,
\* StartWorkers and the workers.
C1_JoinAfterAllWorkersExited ==
    mainPc = "done" => \A w \in Workers : pc[w] = "exited"

\* C2: whenever the quit channel holds or has ever held a token, the Job
\* Queue is closed and contains no unreceived record.
C2_TokensOnlyAfterDrain ==
    stopI > 0 => jobsClosed /\ jobs = <<>>

\* C3: a worker leaves the select loop as soon as it has sqlBatchSize records,
\* so no insert carries more than sqlBatchSize records, the insert carries
\* exactly the accumulated records, and a cycle that ended below sqlBatchSize
\* records ended by its timer.
C3_BatchClosesAtFirstBound ==
    /\ \A w \in Workers :
        /\ pc[w] = "select" => counter[w] < sqlBatchSize /\ ~timeout[w]
        /\ pc[w] \in {"flush", "quitcheck"} =>
            /\ counter[w] <= sqlBatchSize
            /\ counter[w] < sqlBatchSize => timeout[w]
            /\ Len(values[w]) = H * counter[w]
        /\ pc[w] = "quitcheck" /\ counter[w] > 0 =>
            /\ ExecsBy(w) # <<>>
            /\ Last(ExecsBy(w)).args = values[w]
            /\ NumRecords(Last(ExecsBy(w))) = counter[w]
    /\ \A i \in 1..Len(execs) : NumRecords(execs[i]) <= sqlBatchSize

\* A full batch was inserted without its timer having expired.
C3_Witness ==
    \E w \in Workers :
        /\ pc[w] = "quitcheck"
        /\ ~timeout[w]
        /\ counter[w] = sqlBatchSize
        /\ NumRecords(Last(execs)) = sqlBatchSize
        /\ Last(execs).worker = w

\* C4: every conn.ExecContext call carries at least one record, and a cycle
\* whose timer expired with nothing accumulated goes to the shutdown check
\* without a call.
C4_NoEmptyInsert ==
    /\ [](\A i \in 1..Len(execs) : Len(execs[i].args) >= 1 /\ NumRecords(execs[i]) >= 1)
    /\ [][\A w \in Workers :
            pc[w] = "flush" /\ counter[w] = 0 /\ pc'[w] # pc[w]
                => execs' = execs /\ pc'[w] = "quitcheck"]_vars

\* A worker timed out with nothing accumulated and is at the shutdown check,
\* and no insert was made by it.
C4_Witness ==
    \E w \in Workers :
        /\ pc[w] = "quitcheck"
        /\ timeout[w]
        /\ counter[w] = 0
        /\ ExecsBy(w) = <<>>
        /\ jobs # <<>>

\* C5: an insert of K records of len(Header) fields each has a parameter
\* vector of len(Header) * K values and a statement with exactly K placeholder
\* groups: the one of query and K - 1 appended ", (<group>)" fragments.
C5_VectorAndGroups ==
    /\ \A w \in Workers :
        pc[w] = "flush" /\ counter[w] >= 1 =>
            /\ Len(values[w]) = H * counter[w]
            /\ CountOccurrences(q[w], Group) = counter[w]
    /\ \A i \in 1..Len(execs) :
        LET K == NumRecords(execs[i])
        IN /\ K \in 1..sqlBatchSize
           /\ Len(execs[i].args) = H * K
           /\ CountOccurrences(execs[i].query, Group) = K
           /\ execs[i].query = query \o Repeat(Fragment, K - 1)

\* An insert of more than one record was made.
C5_Witness ==
    \E i \in 1..Len(execs) :
        /\ NumRecords(execs[i]) = sqlBatchSize
        /\ sqlBatchSize > 1
        /\ CountOccurrences(execs[i].query, Group) = sqlBatchSize

\* C6: every token sent is in the quit channel or was taken by one worker, no
\* worker takes more than one, a worker has taken a token exactly when it is
\* past its shutdown check on the way out, and such a worker holds no values
\* that it has not inserted.
C6_TokenOncePerWorkerBetweenCycles ==
    /\ Len(quit) + SumTaken(Workers) = stopI
    /\ \A w \in Workers :
        /\ taken[w] <= 1
        /\ taken[w] = 1 <=> Exited(w)
        /\ Exited(w) =>
            \/ values[w] = <<>>
            \/ /\ ExecsBy(w) # <<>>
               /\ Last(ExecsBy(w)).args = values[w]
               /\ Last(ExecsBy(w)).ok

\* Both workers have taken their token, one of them right after an insert.
C6_Witness ==
    /\ \A w \in Workers : taken[w] = 1
    /\ quit = <<>>
    /\ \E w \in Workers : Exited(w) /\ values[w] # <<>>

\* C7 (as claimed): after a failed insert no further insert is issued by any
\* worker: a failed call is the last call of the run.
C7_NoFlushAfterFailure ==
    \A i \in 1..Len(execs) : ~execs[i].ok => i = Len(execs)

\* C7 (amended): the worker whose insert failed issues no further insert,
\* takes no Quit Token and never decrements the pool counter, so wg.Wait cannot
\* return after the failure; the process ends with that worker at log.Fatal,
\* and once the process has ended no insert is issued by any worker.
C7_FailingWorkerAborts ==
    /\ [](\A i \in 1..Len(execs) :
            ~execs[i].ok =>
                LET w == execs[i].worker
                IN /\ pc[w] = "fatal"
                   /\ taken[w] = 0
                   /\ wg >= 1
                   /\ \A j \in (i + 1)..Len(execs) : execs[j].worker # w)
    /\ [](process = "fatal" => \E w \in Workers : pc[w] = "fatal")
    /\ [][process # "running" => execs' = execs]_vars

\* An insert failed, another worker inserted after it, and the process was
\* then ended by log.Fatal.
C7_Witness ==
    /\ process = "fatal"
    /\ \E i \in 1..Len(execs) : ~execs[i].ok /\ i < Len(execs)

\* ----------------------------------------------- the pool on an open queue
\* The worker pool under a caller that sends its Quit Tokens without ever
\* closing jobs: ProcessCSVFile's records are sent, close(jobs) is left out.
ProducerLeavesOpen ==
    /\ Running
    /\ mainPc = "close"
    /\ mainPc' = "stop"
    /\ stopI' = 0
    /\ UNCHANGED <<cfgVars, readPos, row, rowcount, chanVars, workerVars, histVars, startI, wg, process>>

NextOpenQueue ==
    \/ ProducerRead
    \/ ProducerSend
    \/ ProducerLeavesOpen
    \/ StopWorkers
    \/ WgWait
    \/ MainReturn
    \/ StartWorkers
    \/ \E w \in Workers : WorkerConn(w)
    \/ \E w \in Workers : WorkerConnFail(w)
    \/ \E w \in Workers : WorkerTimer(w)
    \/ \E w \in Workers : WorkerRecv(w)
    \/ \E w \in Workers : WorkerFlush(w)
    \/ \E w \in Workers : WorkerFlushFail(w)
    \/ \E w \in Workers : WorkerCheckQuit(w)
    \/ \E w \in Workers : WorkerExit(w)
    \/ \E w \in Workers : WorkerFatal(w)

SpecOpenQueue == Init /\ [][NextOpenQueue]_vars

C9_HeaderOnly ==
    csv = <<>> =>
        /\ [](execs = <<>>)
        /\ <>(mainPc = "done" \/ \E w \in Workers : pc[w] = "fatal")

\* Header only: every worker has exited, the join has returned, no insert.
C9_Witness ==
    /\ csv = <<>>
    /\ execs = <<>>
    /\ mainPc = "done"
    /\ \A w \in Workers : pc[w] = "exited"

\* ------------------------------------------------------------ scenarios
\* Header ["a","b"], rows [["1","2"],["3","4"]], one worker, B = 8, the
\* program's channel capacity and row ceiling.
InitScenario == InitState(1, 8, 100, mainMaxLines, Rows(2))

SpecScenario == InitScenario /\ [][Next]_vars

Template2Lower == <<"i","n","s","e","r","t"," ","i","n","t","o"," ","d","o","m","a","i","n"," ","(","a",",","b",")"," ","v","a","l","u","e","s"," ","(","?",",","?",")",","," ","(","?",",","?",")">>
Template2 == <<"I","N","S","E","R","T"," ","I","N","T","O"," ","d","o","m","a","i","n"," ","(","a",",","b",")"," ","V","A","L","U","E","S"," ","(","?",",","?",")",","," ","(","?",",","?",")">>
Params2 == <<"1", "2", "3", "4">>

RECURSIVE FlatArgs(_)
\* The parameter vectors of a sequence of calls, one after the other
FlatArgs(es) == IF es = <<>> THEN <<>> ELSE Head(es).args \o FlatArgs(Tail(es))

IsPrefix(s, t) == Len(s) <= Len(t) /\ s = SubSeq(t, 1, Len(s))

C11_BoundedFifo ==
    /\ [](/\ Len(jobs) <= channelBufferSize
          /\ Len(jobs) <= Len(sent)
          /\ jobs = SubSeq(sent, Len(sent) - Len(jobs) + 1, Len(sent)))
    /\ [][sent' # sent =>
            /\ mainPc = "send"
            /\ Len(jobs) < channelBufferSize
            /\ sent' = Append(sent, row)
            /\ jobs' = Append(jobs, row)]_vars
    /\ [][jobs' # jobs /\ sent' = sent => jobs # <<>> /\ jobs' = Tail(jobs)]_vars

\* The producer is waiting to send on a full queue.
C11_Witness ==
    /\ mainPc = "send"
    /\ Len(jobs) = channelBufferSize
    /\ \E w \in Workers : pc[w] = "select"

RECURSIVE LeadingRows(_)
\* The number of records Read returns before its first error
LeadingRows(input) ==
    IF input = <<>> \/ Head(input).err # "nil" THEN 0 ELSE 1 + LeadingRows(Tail(input))

Min(a, b) == IF a <= b THEN a ELSE b

\* C12: for a source of N readable records ProcessCSVFile sends the first
\* min(N, maxLines) of them, then closes jobs, once, and sends nothing after.
C12_SendsMinThenCloses ==
    /\ [](/\ Len(sent) <= Min(LeadingRows(csv), maxLines)
          /\ \A i \in 1..Len(sent) : sent[i] = csv[i].row
          /\ jobsClosed => Len(sent) = Min(LeadingRows(csv), maxLines)
          /\ jobsClosed <=> mainPc \in {"stop", "wait", "done"})
    /\ [][jobsClosed => jobsClosed' /\ sent' = sent]_vars

\* The row ceiling ended the loop before the end of the input.
C12_Witness ==
    /\ jobsClosed
    /\ maxLines < LeadingRows(csv)
    /\ Len(sent) = maxLines

\* ------------------------------------------------- a failing row source
\* One record, then a read that fails, then a record that is never read.
FailingInput == <<Ok(DataRow(1)), ReadError, Ok(DataRow(2))>>

InitReadError == InitState(NWorkers, BatchSize, QueueCap, mainMaxLines, FailingInput)

FairSpecReadError == InitReadError /\ [][Next]_vars /\ Fairness

\* C13: once a read has failed ProcessCSVFile reads and sends no more and
\* closes jobs; the process is ended by log.Fatal only through a worker's
\* connection or store failure; the W tokens are sent and main reaches
\* wg.Wait (no worker failing); the records sent before the failure are the
\* ones the workers may insert.
C13_ReadErrorAsEof ==
    /\ [](/\ readPos <= LeadingRows(csv) + 1
          /\ Len(sent) <= LeadingRows(csv)
          /\ \A i \in 1..Len(sent) : sent[i] = csv[i].row
          /\ readPos = LeadingRows(csv) + 1 =>
                /\ mainPc \in {"close", "stop", "wait", "done"}
                /\ Len(sent) = LeadingRows(csv)
          /\ mainPc \in {"wait", "done"} => jobsClosed /\ stopI = totalWorkers
          /\ process = "fatal" => \E w \in Workers : pc[w] = "fatal")
    /\ <>(mainPc \in {"wait", "done"} \/ \E w \in Workers : pc[w] = "fatal")

\* After the failing read the run completed, and the record sent before the
\* failure was inserted.
C13_Witness ==
    /\ csv = FailingInput
    /\ readPos = 2
    /\ mainPc = "done"
    /\ \A w \in Workers : pc[w] = "exited"
    /\ \E i \in 1..Len(execs) : execs[i].args = DataRow(1) /\ execs[i].ok

\* ------------------------------------------------- records of the inserts
\* The records of a parameter vector, len(Header) values each
RowsOf(args) == [k \in 1..(Len(args) \div H) |-> SubSeq(args, (k - 1) * H + 1, k * H)]

RECURSIVE FlatRows(_)
\* The fields of a sequence of records, one record after the other
FlatRows(rs) == IF rs = <<>> THEN <<>> ELSE Head(rs) \o FlatRows(Tail(rs))

\* The records of every insert of the run, in the order of the inserts
RECURSIVE AllRows(_)
AllRows(es) == IF es = <<>> THEN <<>> ELSE RowsOf(Head(es).args) \o AllRows(Tail(es))

\* Where a record stands in what was sent (the input's rows are distinct)
SentIndex(r) == CHOOSE i \in 1..Len(sent) : sent[i] = r

\* C14 (first part, holds): every parameter vector is the row-major
\* concatenation of records that were sent, in the order they were sent and
\* so received.
C14_VectorInReceiveOrder ==
    \A i \in 1..Len(execs) :
        LET rs == RowsOf(execs[i].args)
        IN /\ execs[i].args = FlatRows(rs)
           /\ \A k \in 1..Len(rs) : \E j \in 1..Len(sent) : sent[j] = rs[k]
           /\ \A k \in 1..(Len(rs) - 1) : SentIndex(rs[k]) < SentIndex(rs[k + 1])

\* C14: with one worker, when the worker has exited and the join has returned,
\* the parameter vectors of the inserts, in order, are the records sent, in
\* source order.
C14_SingleWorkerInsertsAllInOrder ==
    totalWorkers = 1 /\ mainPc = "done" /\ pc[0] = "exited"
        => FlatArgs(execs) = FlatRows(sent)

\* C15: the quit channel never holds more than its capacity, the capacity is
\* at least totalWorkers, StopWorkers finds room for every token it is about
\* to send whatever the workers have done, it sends one token per step, and
\* it has sent totalWorkers tokens when it returns.
C15_StopWorkersNeverBlocks ==
    /\ [](/\ QuitCap >= totalWorkers
          /\ Len(quit) <= QuitCap
          /\ stopI <= totalWorkers
          /\ mainPc = "stop" => stopI < totalWorkers /\ Len(quit) < QuitCap
          /\ mainPc \in {"read", "send", "close"} => stopI = 0
          /\ mainPc \in {"wait", "done"} => stopI = totalWorkers)
    /\ [][stopI' # stopI => /\ mainPc = "stop"
                            /\ stopI' = stopI + 1
                            /\ quit' = Append(quit, TRUE)]_vars

\* StopWorkers has returned and no worker was started yet: all the tokens are
\* in the channel.
C15_Witness ==
    /\ mainPc = "wait"
    /\ totalWorkers = NWorkers
    /\ Len(quit) = totalWorkers
    /\ \A w \in Workers : pc[w] = "unstarted"

\* ------------------------------------------------- the conversion alone
\* The strings of the test's list
TestStrings == {"Abc", "Xyz", "Mno"}

\* a1 := []string{"Abc", "Xyz", "Mno"}
TestList == <<"Abc", "Xyz", "Mno">>

\* Every list of at most MaxListLen of those strings, the empty list included
TestLists == UNION {[1..n -> TestStrings] : n \in 0..MaxListLen}

\* The test before its call: a1 is held in values[0], no pool is running
InitToAnyList ==
    \E a1 \in TestLists :
        /\ totalWorkers = 1
        /\ sqlBatchSize = BatchSize
        /\ channelBufferSize = QueueCap
        /\ maxLines = mainMaxLines
        /\ dataHeaders = Header
        /\ csv = <<>>
        /\ readPos = 0
        /\ row = <<>>
        /\ rowcount = 0
        /\ mainPc = "test"
        /\ stopI = 0
        /\ startI = 0
        /\ jobs = <<>>
        /\ jobsClosed = FALSE
        /\ quit = <<>>
        /\ wg = 0
        /\ pc = [w \in {0} |-> "unstarted"]
        /\ counter = [w \in {0} |-> 0]
        /\ q = [w \in {0} |-> <<>>]
        /\ values = [w \in {0} |-> a1]
        /\ timeout = [w \in {0} |-> FALSE]
        /\ process = "running"
        /\ execs = <<>>
        /\ sent = <<>>
        /\ taken = [w \in {0} |-> 0]

\* list := toAnyList(a1); the list is recorded as the arguments of a call
TestToAnyList ==
    /\ mainPc = "test"
    /\ execs' = Append(execs, ExecCall(0, TRUE))
    /\ mainPc' = "done"
    /\ UNCHANGED <<cfgVars, readPos, row, rowcount, stopI, chanVars, workerVars, sent, taken,
                   startI, wg, process>>

SpecToAnyList == InitToAnyList /\ [][TestToAnyList]_vars

\* C16: the list toAnyList returns has the length of its input and the same
\* element at every index; for the test's list it has three elements and
\* "Abc" first.
C16_ToAnyListPreserves ==
    \A c \in 1..Len(execs) :
        LET input == values[execs[c].worker]
            list  == execs[c].args
        IN /\ Len(list) = Len(input)
           /\ \A i \in 1..Len(input) : list[i] = input[i]
           /\ input = TestList => Len(list) = 3 /\ list[1] = "Abc"

\* The test's call has returned.
C16_Witness == mainPc = "done" /\ values[0] = TestList /\ Len(execs) = 1

\* C17: when wg.Wait returns with every worker started and exited (so no
\* store or connection error happened), the jobs channel is empty and every
\* record sent is among the records of the inserts.
C17_JoinMeansAllInserted ==
    (/\ mainPc = "wait"
     /\ WaitReturns
     /\ startI = totalWorkers
     /\ \A w \in Workers : pc[w] = "exited")
        => /\ jobs = <<>>
           /\ \A i \in 1..Len(sent) :
                  \E k \in 1..Len(AllRows(execs)) : AllRows(execs)[k] = sent[i]

\* C18: in a fairly scheduled run without a store or connection error the
\* producer closes the jobs channel, StopWorkers returns, wg.Wait returns, and
\* every worker that was started reaches its exit.
C18_CompletesAndStartedWorkersExit ==
    \/ <>(\E w \in Workers : pc[w] = "fatal")
    \/ /\ <>jobsClosed
       /\ <>(mainPc \in {"wait", "done"})
       /\ <>(mainPc = "done")
       /\ \A w \in 0..(NWorkers - 1) :
              [](w \in Workers /\ pc[w] # "unstarted" => <>(pc[w] \in {"exiting", "exited"}))

\* C19: every record of an insert is a record the producer sent, and no sent
\* record is in two inserts or twice in one, whichever workers and cycles
\* made them (the rows of the input are pairwise distinct).
C19_EachRecordInsertedAtMostOnce ==
    LET rs == AllRows(execs)
    IN /\ \A k \in 1..Len(rs) : \E j \in 1..Len(sent) : sent[j] = rs[k]
       /\ \A k1, k2 \in 1..Len(rs) : k1 # k2 => rs[k1] # rs[k2]
       /\ \A i \in 1..Len(execs) : execs[i].args = FlatRows(RowsOf(execs[i].args))
       /\ \A j1, j2 \in 1..Len(sent) : j1 # j2 => sent[j1] # sent[j2]

\* One worker has made two inserts, in two cycles.
C19_Witness ==
    \E w \in Workers :
        /\ Len(ExecsBy(w)) = 2
        /\ \A i \in 1..Len(execs) : execs[i].ok /\ NumRecords(execs[i]) >= 1

\* C20: while the jobs channel is closed and empty, so that a receive delivers
\* nil, no step changes a selecting worker's counter, query or values or takes
\* a token for it, and the worker leaves the select only by its timer, to the
\* flush.
C20_NilReceiveChangesNothing ==
    [][\A w \in Workers :
          pc[w] = "select" /\ jobsClosed /\ jobs = <<>> =>
              /\ counter'[w] = counter[w]
              /\ q'[w] = q[w]
              /\ values'[w] = values[w]
              /\ taken'[w] = taken[w]
              /\ pc'[w] \in {"select", "flush"}
              /\ pc'[w] = "flush" => ~timeout[w] /\ timeout'[w]]_vars

\* A worker holds a record below the batch size, its timer has not expired,
\* and the closed, empty channel delivers nil to it.
C20_Witness ==
    \E w \in Workers :
        /\ pc[w] = "select"
        /\ jobsClosed
        /\ jobs = <<>>
        /\ counter[w] > 0
        /\ ~timeout[w]
        /\ ENABLED WorkerRecv(w)

====
